---- MODULE Spec2Model ----
(***************************************************************************)
(* A model of claude_archiver.py: the accessibility-tree walker            *)
(* (_extract_text_from_element), the content assembler                     *)
(* (process_conversation_content), the change detector                     *)
(* (generate_conversation_hash and the compare in monitor_claude), the     *)
(* snapshot store (save_conversation) and the poll loop with its           *)
(* lifecycle (start_monitoring, stop_monitoring, manual_save, main,        *)
(* signal_handler).                                                        *)
(*                                                                         *)
(* Strings are sequences of one-character strings, so that strip(), join() *)
(* and the digest are computed character by character.  Python's None is   *)
(* the empty tuple and a present value v is the one-element tuple <<v>>.   *)
(***************************************************************************)
EXTENDS Integers, Sequences, FiniteSets, TLC

VARIABLES
    \* ---- the walker, as a call stack (one frame per active call) ----
    tree,            \* the element graph being walked: element -> node
    faults,          \* the (element, attribute) reads that raise
    stack,           \* the active calls of _extract_text_from_element
    walk_result,     \* None, or <<text_content>> returned by the root call
    calls,           \* number of calls made so far
    deepest,         \* the greatest depth a call was made with
    \* ---- configuration, set at construction (lines 40-43) ----
    auto_save_enabled,
    min_message_length,
    \* ---- the environment ----
    trusted,         \* what AXIsProcessTrusted answers
    running,         \* pid of the running Claude application, 0 when none runs
    launches,        \* how many times the application was launched
    \* ---- the archiver object and its threads ----
    claude_app,      \* None, or <<pid>> of the application found
    monitoring,
    last_conversation_hash,
    pc,              \* where each worker thread stands in monitor_claude
    main_pc,         \* where the main thread stands
    exit_status,     \* None while the process runs, then <<status>>
    \* ---- history, kept to state the properties ----
    last_cycle,      \* what the most recent poll cycle did
    latest_snapshot, \* None, or the snapshot of the most recent cycle that
                     \* produced one
    last_saved       \* None, or the last call of save_conversation

walkvars == <<tree, faults, stack, walk_result, calls, deepest>>

pollvars ==
    <<auto_save_enabled, min_message_length, trusted, running, launches,
      claude_app, monitoring, last_conversation_hash, pc, main_pc,
      exit_status, last_cycle, latest_snapshot, last_saved>>

vars == <<walkvars, pollvars>>

None == <<>>
Some(v) == <<v>>

(***************************************************************************)
(* Strings                                                                 *)
(***************************************************************************)
Rep(c, n) == [i \in 1..n |-> c]

IsSpace(c) == c \in {" ", "\n", "\t"}

RECURSIVE LStrip(_)
LStrip(s) == IF s # <<>> /\ IsSpace(Head(s)) THEN LStrip(Tail(s)) ELSE s

RECURSIVE RStrip(_)
RStrip(s) ==
    IF s # <<>> /\ IsSpace(s[Len(s)]) THEN RStrip(SubSeq(s, 1, Len(s) - 1)) ELSE s

\* str.strip()
Strip(s) == RStrip(LStrip(s))

\* sample texts
TxtA == Rep("a", 6)
TxtB == Rep("b", 6)
TxtC == Rep("c", 6)
TxtD == Rep("d", 6)

(***************************************************************************)
(* Accessibility elements.  A node is what the accessibility interface     *)
(* answers for one element: whether its attribute names can be listed, the *)
(* value of each attribute it has, and its child elements.  A value is a   *)
(* string (str = TRUE) or something else (a number, a range, None).        *)
(***************************************************************************)
StrVal(s) == [str |-> TRUE, s |-> s]
OtherVal == [str |-> FALSE, s |-> <<>>]

text_attributes ==
    << "AXValue", "AXTitle", "AXDescription", "AXHelp", "AXRoleDescription",
       "AXPlaceholderValue", "AXStringForRange", "AXAttributedStringForRange",
       "AXSelectedText", "AXVisibleCharacterRange" >>

MinFragmentLen == 5
MaxTextDepth == 4
MaxRecurseDepth == 3

QualifiesAtThreshold(value) ==
    value.str /\ value.s # <<>> /\ Len(Strip(value.s)) >= MinFragmentLen

\* line 172: value and isinstance(value, str) and len(value.strip()) > 5
Qualifies(value) ==
    value.str /\ value.s # <<>> /\ Len(Strip(value.s)) > MinFragmentLen

\* one pass of the loop body over text_attributes, lines 169-177: the
\* fragments (with where they come from) the probe of attribute number k adds
ProbeAttr(t, f, el, path, k) ==
    LET attr == text_attributes[k]
        node == t[el]
    IN  IF attr \notin DOMAIN node.attrs THEN <<>>
        ELSE IF <<el, attr>> \in f THEN <<>>
        ELSE IF Qualifies(node.attrs[attr])
             THEN << [text |-> Strip(node.attrs[attr].s), el |-> el,
                      attr |-> k, path |-> path] >>
             ELSE <<>>

RECURSIVE ProbeUntilError(_, _, _, _, _)
ProbeUntilError(t, f, el, path, k) ==
    IF k > Len(text_attributes) THEN <<>>
    ELSE IF text_attributes[k] \in DOMAIN t[el].attrs
            /\ <<el, text_attributes[k]>> \in f
         THEN <<>>
         ELSE ProbeAttr(t, f, el, path, k)
              \o ProbeUntilError(t, f, el, path, k + 1)

RECURSIVE ProbeBackwards(_, _, _, _, _)
ProbeBackwards(t, f, el, path, k) ==
    IF k > Len(text_attributes) THEN <<>>
    ELSE ProbeBackwards(t, f, el, path, k + 1) \o ProbeAttr(t, f, el, path, k)

\* lines 168-177: the loop over text_attributes, from attribute number k on
RECURSIVE ProbeFrom(_, _, _, _, _)
ProbeFrom(t, f, el, path, k) ==
    IF k > Len(text_attributes) THEN <<>>
    ELSE ProbeAttr(t, f, el, path, k) \o ProbeFrom(t, f, el, path, k + 1)

\* lines 154-188: the node's own fragments; listing the attribute names may
\* fail, and then the outer handler skips every probe of the node
OwnFragments(t, f, el, path) ==
    IF ~t[el].names_ok THEN <<>> ELSE ProbeFrom(t, f, el, path, 1)

\* line 151
TooDeep(depth) == depth > MaxTextDepth

RecurseAtAnyDepth(children, depth) == children # <<>>

RecurseWithinTextLimit(children, depth) ==
    children # <<>> /\ depth < MaxTextDepth

\* line 193
ShouldRecurse(children, depth) == children # <<>> /\ depth < MaxRecurseDepth

PrependContent(text_content, child_text) ==
    IF child_text # <<>> THEN child_text \o text_content ELSE text_content

\* lines 197-198
ExtendContent(text_content, child_text) ==
    IF child_text # <<>> THEN text_content \o child_text ELSE text_content

\* The walker as a function: what one call returns on a graph that does not
\* change while it is walked.
RECURSIVE extract_text_from_element(_, _, _, _, _)
RECURSIVE ExtractChildren(_, _, _, _, _, _, _)
ExtractChildren(t, f, children, i, path, depth, text_content) ==
    IF i > Len(children) THEN text_content
    ELSE ExtractChildren(t, f, children, i + 1, path, depth,
            ExtendContent(text_content,
                extract_text_from_element(t, f, children[i],
                                          Append(path, i), depth + 1)))

extract_text_from_element(t, f, el, path, depth) ==
    IF TooDeep(depth) THEN <<>>
    ELSE LET own == OwnFragments(t, f, el, path)
             children == t[el].children
         IN  IF ShouldRecurse(children, depth)
             THEN ExtractChildren(t, f, children, 1, path, depth, own)
             ELSE own

Texts(items) == [i \in 1..Len(items) |-> items[i].text]

(***************************************************************************)
(* The walker as a call stack.  The top frame is the running call; each    *)
(* step runs it to its next call or return.                                *)
(***************************************************************************)
Frame(el, path, depth) ==
    [el |-> el, path |-> path, depth |-> depth, phase |-> "enter",
     text_content |-> <<>>, children |-> <<>>, i |-> 1]

Top == stack[Len(stack)]

SetTop(fr) == [stack EXCEPT ![Len(stack)] = fr]

\* lines 146-188: the depth check, then the node's own attributes
Enter ==
    /\ stack # <<>>
    /\ Top.phase = "enter"
    /\ IF TooDeep(Top.depth)
       THEN stack' = SetTop([Top EXCEPT !.phase = "ret"])
       ELSE stack' = SetTop([Top EXCEPT
                !.text_content = OwnFragments(tree, faults, Top.el, Top.path),
                !.phase = "children"])
    /\ UNCHANGED <<tree, faults, walk_result, calls, deepest>>
    /\ UNCHANGED pollvars

\* lines 191-194: read the child list and decide whether to descend
ReadChildren ==
    /\ stack # <<>>
    /\ Top.phase = "children"
    /\ LET children == tree[Top.el].children
       IN  IF ShouldRecurse(children, Top.depth)
           THEN stack' = SetTop([Top EXCEPT !.children = children, !.i = 1,
                                            !.phase = "recurse"])
           ELSE stack' = SetTop([Top EXCEPT !.phase = "ret"])
    /\ UNCHANGED <<tree, faults, walk_result, calls, deepest>>
    /\ UNCHANGED pollvars

\* lines 195-196: the call on the next child, or the end of the loop
Recurse ==
    /\ stack # <<>>
    /\ Top.phase = "recurse"
    /\ IF Top.i <= Len(Top.children)
       THEN /\ stack' = Append(stack, Frame(Top.children[Top.i],
                                            Append(Top.path, Top.i),
                                            Top.depth + 1))
            /\ calls' = calls + 1
            /\ deepest' = IF Top.depth + 1 > deepest THEN Top.depth + 1
                          ELSE deepest
       ELSE /\ stack' = SetTop([Top EXCEPT !.phase = "ret"])
            /\ UNCHANGED <<calls, deepest>>
    /\ UNCHANGED <<tree, faults, walk_result>>
    /\ UNCHANGED pollvars

\* line 202, and lines 197-198 in the caller
Return ==
    /\ stack # <<>>
    /\ Top.phase = "ret"
    /\ IF Len(stack) = 1
       THEN /\ stack' = <<>>
            /\ walk_result' = Some(Top.text_content)
       ELSE LET caller == stack[Len(stack) - 1]
                rest == SubSeq(stack, 1, Len(stack) - 1)
            IN  /\ stack' = [rest EXCEPT ![Len(rest)] =
                        [caller EXCEPT
                            !.text_content =
                                ExtendContent(caller.text_content,
                                              Top.text_content),
                            !.i = caller.i + 1]]
                /\ UNCHANGED walk_result
    /\ UNCHANGED <<tree, faults, calls, deepest>>
    /\ UNCHANGED pollvars

(***************************************************************************)
(* Content assembler, change detector, snapshot store                      *)
(***************************************************************************)
RECURSIVE JoinWithSpace(_)
JoinWithSpace(raw_content) ==
    IF raw_content = <<>> THEN <<>>
    ELSE IF Len(raw_content) = 1 THEN raw_content[1]
    ELSE raw_content[1] \o <<" ">> \o JoinWithSpace(Tail(raw_content))

RECURSIVE Join(_)
\* "\n".join(raw_content)
Join(raw_content) ==
    IF raw_content = <<>> THEN <<>>
    ELSE IF Len(raw_content) = 1 THEN raw_content[1]
    ELSE raw_content[1] \o <<"\n">> \o Join(Tail(raw_content))

MessageLen == 20

RECURSIVE CountFromThreshold(_)
CountFromThreshold(raw_content) ==
    IF raw_content = <<>> THEN 0
    ELSE (IF Len(Strip(Head(raw_content))) >= MessageLen THEN 1 ELSE 0)
         + CountFromThreshold(Tail(raw_content))

\* line 222: len([line for line in raw_content if len(line.strip()) > 20])
RECURSIVE CountLong(_)
CountLong(raw_content) ==
    IF raw_content = <<>> THEN 0
    ELSE (IF Len(Strip(Head(raw_content))) > MessageLen THEN 1 ELSE 0)
         + CountLong(Tail(raw_content))

process_without_rejection(content, minlen, now) ==
    IF content = None THEN None
    ELSE Some([timestamp |-> now,
               app_name |-> "Claude Desktop",
               raw_content |-> content[1],
               processed_text |-> Join(content[1]),
               message_count |-> CountLong(content[1])])

\* lines 204-225; content is None or <<raw_content>>
process_conversation_content(content, minlen, now) ==
    IF content = None \/ content[1] = <<>> THEN None
    ELSE LET raw_content == content[1]
             full_text == Join(raw_content)
         IN  IF Len(Strip(full_text)) < minlen THEN None
             ELSE Some([timestamp |-> now,
                        app_name |-> "Claude Desktop",
                        raw_content |-> raw_content,
                        processed_text |-> full_text,
                        message_count |-> CountLong(raw_content)])

\* hashlib.md5(...).hexdigest(): a fixed-size digest that depends on every
\* character and its position.  The digest kept here is a positional sum
\* modulo DigestMod; DigestCollisionFree states that, like md5 on the inputs
\* this program meets, it tells apart the texts of the model.
DigestBase == 31
DigestMod == 16777216

CharCode(c) ==
    CASE c = "a" -> 1 [] c = "b" -> 2 [] c = "c" -> 3 [] c = "d" -> 4
      [] c = "e" -> 5 [] c = " " -> 6 [] c = "\n" -> 7 [] c = "\t" -> 8
      [] OTHER -> 9

RECURSIVE Digest(_, _)
Digest(h, s) ==
    IF s = <<>> THEN h
    ELSE Digest((h * DigestBase + CharCode(Head(s))) % DigestMod, Tail(s))

MD5(s) == Digest(Len(s) + 1, s)

hash_with_timestamp(conversation) ==
    IF conversation = None THEN None
    ELSE Some((MD5(conversation[1].processed_text)
               + conversation[1].timestamp) % DigestMod)

\* lines 227-233; conversation is None or <<record>>
generate_conversation_hash(conversation) ==
    IF conversation = None THEN None
    ELSE Some(MD5(conversation[1].processed_text))

\* lines 235-256: the call is recorded with whether the file was written; a
\* failed write is caught and reported inside save_conversation
save_conversation(conversation, write_ok, by) ==
    IF conversation = None THEN last_saved
    ELSE Some([conversation |-> conversation[1], ok |-> write_ok, by |-> by])

(***************************************************************************)
(* The window of the application.  What the accessibility interface shows  *)
(* can change between any two reads, so each walk is given the state of    *)
(* the window at that moment.                                              *)
(***************************************************************************)
Leaf(attrs) == [names_ok |-> TRUE, attrs |-> attrs, children |-> <<>>]

NoText == [a \in {"AXRole"} |-> StrVal(<<"A", "X", "G", "r", "o", "u", "p">>)]

WinBlank == [n \in {1} |-> Leaf(NoText)]

WinA == [n \in {1} |-> Leaf([a \in {"AXValue"} |-> StrVal(TxtA)])]

WinB == [n \in {1} |-> Leaf([a \in {"AXValue"} |-> StrVal(<<" ">> \o TxtB)])]

\* two fragments, one from the window and one from its child
WinAB ==
    [n \in {1, 2} |->
        IF n = 1
        THEN [names_ok |-> TRUE, attrs |-> [a \in {"AXValue"} |-> StrVal(TxtA)],
              children |-> <<2>>]
        ELSE Leaf([a \in {"AXTitle"} |-> StrVal(TxtB)])]

\* one fragment holding the same two lines
WinAB1 ==
    [n \in {1} |->
        Leaf([a \in {"AXValue"} |-> StrVal(TxtA \o <<"\n">> \o TxtB)])]

Windows == {WinBlank, WinA, WinB, WinAB, WinAB1}

\* what a walk from the root of each window returns (lines 95 and 98)
WalkedWindow ==
    [w \in Windows |-> extract_text_from_element(w, {}, 1, <<>>, 0)]

NumTimestamps == 2

Timestamps == 1..NumTimestamps

\* What the application answers when asked for its windows: None (no
\* window, or the request fails), or <<w>> with w the main window.
WindowAnswers == {None} \cup {Some(w) : w \in Windows}

\* lines 75-105.  app is self.claude_app and windows is the answer at line
\* 86, which is None as well when the process of app no longer runs.  The
\* main window is walked at line 95 and again at line 98; the first result
\* is overwritten before any use, so only the second is returned.
get_claude_window_content(app, windows) ==
    IF app = None THEN [content |-> None, walks |-> 0]
    ELSE IF app[1] # running \/ windows = None
         THEN [content |-> None, walks |-> 0]
         ELSE LET main_window == windows[1]
                  first == WalkedWindow[main_window]
                  content == WalkedWindow[main_window]
              IN  [content |-> Some(Texts(content)), walks |-> 2]

\* what get_claude_window_content can return
Contents == {None} \cup {Some(Texts(WalkedWindow[w])) : w \in Windows}

\* a threshold longer than the shortest text a window can show
LongMinLength == 8

MinLengths == {1, LongMinLength}

\* process_conversation_content and generate_conversation_hash on every
\* input the model meets, worked out once
Assembled ==
    [c \in Contents, m \in MinLengths, now \in Timestamps |->
        process_conversation_content(c, m, now)]

Fingerprint ==
    [c \in Contents, m \in MinLengths, now \in Timestamps |->
        generate_conversation_hash(process_conversation_content(c, m, now))]

(***************************************************************************)
(* monitor_claude, lines 271-316, one worker thread t                      *)
(***************************************************************************)
MaxThreads == 2

Threads == 1..MaxThreads

Alive == main_pc # "exited"

\* latest_snapshot, prev_outcome and running are history that only the properties of
\* the program as main runs it read; it is kept there and left idle when the
\* object is driven through its methods.
Kept(x, idle) == IF main_pc = "api" THEN idle ELSE x

\* what datetime.now() can answer (line 218).  The time of a snapshot plays
\* no part in what the methods of the object do, so one reading stands for
\* all when the object is driven through its methods.
Clock == IF main_pc = "api" THEN {1} ELSE Timestamps

NoCycle ==
    [outcome |-> "none", prev_outcome |-> "none", hash_before |-> None,
     raw_content |-> None, conversation |-> None, fingerprint |-> None, save_called |-> FALSE,
     write_ok |-> FALSE, walks |-> 0, running |-> 0]

LoopWithoutCheck(t) ==
    /\ Alive
    /\ pc[t] = "loop"
    /\ pc' = [pc EXCEPT ![t] = "cycle"]
    /\ UNCHANGED <<auto_save_enabled, min_message_length, trusted, running,
                   launches, claude_app, monitoring, last_conversation_hash,
                   main_pc, exit_status, last_cycle, latest_snapshot, last_saved>>
    /\ UNCHANGED walkvars

\* line 275: the loop condition
LoopCheck(t) ==
    /\ Alive
    /\ pc[t] = "loop"
    /\ pc' = [pc EXCEPT ![t] = IF monitoring THEN "cycle" ELSE "done"]
    /\ UNCHANGED <<auto_save_enabled, min_message_length, trusted, running,
                   launches, claude_app, monitoring, last_conversation_hash,
                   main_pc, exit_status, last_cycle, latest_snapshot, last_saved>>
    /\ UNCHANGED walkvars

\* lines 58-73
find_claude_app == IF running # 0 THEN Some(running) ELSE None

\* lines 278-283: no application found, wait 5 seconds and retry
CycleWaiting(t) ==
    /\ Alive
    /\ pc[t] = "cycle"
    /\ claude_app = None
    /\ find_claude_app = None
    /\ pc' = [pc EXCEPT ![t] = "backoff"]
    /\ last_cycle' = [NoCycle EXCEPT !.outcome = "waiting",
                           !.prev_outcome = Kept(last_cycle.outcome, "none"),
                           !.hash_before = last_conversation_hash,
                           !.running = Kept(running, 0)]
    /\ UNCHANGED <<auto_save_enabled, min_message_length, trusted, running,
                   launches, claude_app, monitoring, last_conversation_hash,
                   main_pc, exit_status, latest_snapshot, last_saved>>
    /\ UNCHANGED walkvars

ErrorEndsLoop == "done"

\* line 316: where the handler of line 314 leaves the worker, in the sleep
\* of check_interval
AfterError == "sleep"

\* lines 314-316: a step of the cycle raised; report, sleep check_interval
CycleError(t) ==
    /\ Alive
    /\ pc[t] = "cycle"
    /\ pc' = [pc EXCEPT ![t] = AfterError]
    /\ last_cycle' = [NoCycle EXCEPT !.outcome = "error",
                           !.prev_outcome = Kept(last_cycle.outcome, "none"),
                           !.hash_before = last_conversation_hash,
                           !.running = Kept(running, 0)]
    /\ UNCHANGED <<auto_save_enabled, min_message_length, trusted, running,
                   launches, claude_app, monitoring, last_conversation_hash,
                   main_pc, exit_status, latest_snapshot, last_saved>>
    /\ UNCHANGED walkvars

ChangedAlways(current_hash, last_hash) == TRUE

\* line 300
Changed(current_hash, last_hash) == current_hash # last_hash

\* line 303
ShouldSave(auto_save) == auto_save

NextHashStale(current_hash, last_hash) == last_hash

\* line 306
NextHash(current_hash, last_hash) == current_hash

WriteErrorPropagates(write_ok) == ~write_ok

\* lines 244-256: the write is inside try, and except Exception reports the
\* failure, so it never reaches the caller (where line 314 would catch it
\* and skip line 306)
WriteErrorEscapes(write_ok) == FALSE

\* lines 278-310: discovery if needed, extraction, assembly, detection,
\* persistence, then sleep check_interval
CyclePoll(t) ==
    /\ Alive
    /\ pc[t] = "cycle"
    /\ LET app == IF claude_app = None THEN find_claude_app ELSE claude_app
       IN
       /\ app # None
       /\ claude_app' = app
       /\ \E windows \in WindowAnswers, now \in Clock :
            LET got == get_claude_window_content(app, windows)
                conversation ==
                    Assembled[got.content, min_message_length, now]
                current_hash ==
                    Fingerprint[got.content, min_message_length, now]
                changed == conversation # None
                           /\ Changed(current_hash, last_conversation_hash)
                saves == changed /\ ShouldSave(auto_save_enabled)
            IN  \E write_ok \in (IF saves THEN BOOLEAN ELSE {FALSE}) :
                LET escaped == saves /\ WriteErrorEscapes(write_ok)
                IN
                /\ last_saved' =
                      IF saves
                      THEN save_conversation(conversation, write_ok, "poll")
                      ELSE last_saved
                /\ last_conversation_hash' =
                      IF changed /\ ~escaped
                      THEN NextHash(current_hash, last_conversation_hash)
                      ELSE last_conversation_hash
                /\ latest_snapshot' =
                      IF conversation # None THEN Kept(conversation, None)
                      ELSE latest_snapshot
                /\ last_cycle' =
                      [outcome |-> IF escaped THEN "error"
                                   ELSE IF conversation = None THEN "empty"
                                   ELSE IF changed THEN "changed"
                                   ELSE "unchanged",
                       prev_outcome |-> Kept(last_cycle.outcome, "none"),
                       hash_before |-> last_conversation_hash,
                       raw_content |-> got.content,
                       conversation |-> conversation,
                       fingerprint |-> current_hash,
                       save_called |-> saves,
                       write_ok |-> write_ok,
                       walks |-> got.walks,
                       running |-> Kept(running, 0)]
    /\ pc' = [pc EXCEPT ![t] = "sleep"]
    /\ UNCHANGED <<auto_save_enabled, min_message_length, trusted, running,
                   launches, monitoring, main_pc, exit_status>>
    /\ UNCHANGED walkvars

\* time.sleep returns (line 282, 310 or 316) and the loop condition is next
Wake(t) ==
    /\ Alive
    /\ pc[t] \in {"sleep", "backoff"}
    /\ pc' = [pc EXCEPT ![t] = "loop"]
    /\ UNCHANGED <<auto_save_enabled, min_message_length, trusted, running,
                   launches, claude_app, monitoring, last_conversation_hash,
                   main_pc, exit_status, last_cycle, latest_snapshot, last_saved>>
    /\ UNCHANGED walkvars

Worker(t) ==
    LoopCheck(t) \/ CycleWaiting(t) \/ CycleError(t) \/ CyclePoll(t) \/ Wake(t)

(***************************************************************************)
(* The lifecycle: the methods of the object, and main with its signal      *)
(* handler                                                                 *)
(***************************************************************************)
FreeThreads == {t \in Threads : pc[t] = "none"}

permission_always_granted == TRUE

\* lines 47-56
check_accessibility_permissions == trusted

\* lines 318-329, called on the object; the new thread takes the first
\* unused thread number
StartMonitoring ==
    /\ main_pc = "api"
    /\ FreeThreads # {}
    /\ IF ~check_accessibility_permissions
       THEN UNCHANGED <<monitoring, pc>>
       ELSE /\ monitoring' = TRUE
            /\ LET t == CHOOSE u \in FreeThreads : \A v \in FreeThreads : u <= v
               IN  pc' = [pc EXCEPT ![t] = "loop"]
    /\ UNCHANGED <<auto_save_enabled, min_message_length, trusted, running,
                   launches, claude_app, last_conversation_hash, main_pc, exit_status,
                   last_cycle, latest_snapshot, last_saved>>
    /\ UNCHANGED walkvars

\* lines 331-334
StopMonitoring ==
    /\ main_pc = "api"
    /\ monitoring' = FALSE
    /\ UNCHANGED <<auto_save_enabled, min_message_length, trusted, running,
                   launches, claude_app, last_conversation_hash, pc, main_pc, exit_status,
                   last_cycle, latest_snapshot, last_saved>>
    /\ UNCHANGED walkvars

ManualSaveRecordsHash ==
    /\ main_pc = "api"
    /\ \E windows \in WindowAnswers, now \in Clock :
         LET got == get_claude_window_content(claude_app, windows)
             conversation ==
                 Assembled[got.content, min_message_length, now]
         IN  \E write_ok \in (IF conversation # None THEN BOOLEAN
                               ELSE {FALSE}) :
                /\ last_saved' =
                      save_conversation(conversation, write_ok, "manual")
                /\ last_conversation_hash' =
                      IF conversation # None
                      THEN generate_conversation_hash(conversation)
                      ELSE last_conversation_hash
    /\ UNCHANGED <<auto_save_enabled, min_message_length, trusted, running,
                   launches, claude_app, monitoring, pc, main_pc,
                   exit_status, last_cycle, latest_snapshot>>
    /\ UNCHANGED walkvars

\* lines 336-347
ManualSave ==
    /\ main_pc = "api"
    /\ \E windows \in WindowAnswers, now \in Clock :
         LET got == get_claude_window_content(claude_app, windows)
             conversation ==
                 Assembled[got.content, min_message_length, now]
         IN  \E write_ok \in (IF conversation # None THEN BOOLEAN
                               ELSE {FALSE}) :
                last_saved' =
                    save_conversation(conversation, write_ok, "manual")
    /\ UNCHANGED <<auto_save_enabled, min_message_length, trusted, running,
                   launches, claude_app, monitoring, last_conversation_hash,
                   pc, main_pc, exit_status, last_cycle, latest_snapshot>>
    /\ UNCHANGED walkvars

\* main, lines 357-380: start_monitoring once, then wait for the interrupt
MainStart ==
    /\ main_pc = "start"
    /\ IF ~check_accessibility_permissions
       THEN /\ main_pc' = "exited"
            /\ exit_status' = Some(0)
            /\ UNCHANGED <<monitoring, pc>>
       ELSE /\ monitoring' = TRUE
            /\ pc' = [pc EXCEPT ![1] = "loop"]
            /\ main_pc' = "waiting"
            /\ UNCHANGED exit_status
    /\ UNCHANGED <<auto_save_enabled, min_message_length, trusted, running,
                   launches, claude_app, last_conversation_hash, last_cycle,
                   latest_snapshot, last_saved>>
    /\ UNCHANGED walkvars

\* signal_handler, lines 350-353: the interrupt reaches the main thread in
\* its wait loop (lines 374-376) and the handler calls stop_monitoring; the
\* worker thread goes on running until the process has ended
SigInt ==
    /\ main_pc = "waiting"
    /\ monitoring' = FALSE
    /\ main_pc' = "stopping"
    /\ UNCHANGED <<auto_save_enabled, min_message_length, trusted, running,
                   launches, claude_app, last_conversation_hash, pc,
                   exit_status, last_cycle, latest_snapshot, last_saved>>
    /\ UNCHANGED walkvars

\* signal_handler, line 354: sys.exit(0) ends the main thread, and the
\* process with it; the worker is a daemon thread and ends where it stands
SysExit ==
    /\ main_pc = "stopping"
    /\ main_pc' = "exited"
    /\ exit_status' = Some(0)
    /\ UNCHANGED <<auto_save_enabled, min_message_length, trusted, running,
                   launches, claude_app, monitoring, last_conversation_hash,
                   pc, last_cycle, latest_snapshot, last_saved>>
    /\ UNCHANGED walkvars

(***************************************************************************)
(* The environment: the application is launched and quit by the user       *)
(***************************************************************************)
MaxLaunches == 2

AppLaunch ==
    /\ Alive
    /\ running = 0
    /\ launches < MaxLaunches
    /\ launches' = launches + 1
    /\ running' = launches + 1
    /\ UNCHANGED <<auto_save_enabled, min_message_length, trusted, claude_app,
                   monitoring, last_conversation_hash, pc, main_pc, exit_status,
                   last_cycle, latest_snapshot, last_saved>>
    /\ UNCHANGED walkvars

AppQuit ==
    /\ Alive
    /\ running # 0
    /\ running' = 0
    /\ UNCHANGED <<auto_save_enabled, min_message_length, trusted, launches,
                   claude_app, monitoring, last_conversation_hash, pc,
                   main_pc, exit_status, last_cycle, latest_snapshot, last_saved>>
    /\ UNCHANGED walkvars

(***************************************************************************)
(* The graphs the walker is run on: three elements, each with any list of  *)
(* at most MaxChildren distinct children, itself included.  This holds     *)
(* every shape the walker can tell apart within its depth bound: leaves,   *)
(* chains, siblings, shared children, and elements that are their own      *)
(* child or descendant (whose unfolding is deeper than any bound).         *)
(***************************************************************************)
MaxChildren == 2

Nodes == {1, 2, 3}

\* the element the walk starts at
Root == CHOOSE n \in Nodes : \A m \in Nodes : n <= m


NodeAttrs ==
    [n \in Nodes |->
        CASE n = 1 -> [a \in {"AXValue", "AXTitle", "AXRole"} |->
                         CASE a = "AXValue" -> StrVal(TxtA)
                           [] a = "AXTitle" -> StrVal(<<" ">> \o TxtB \o <<"\n">>)
                           [] OTHER -> StrVal(<<"A", "X", "W", "i", "n", "d", "o", "w">>)]
          [] n = 2 -> [a \in {"AXValue", "AXDescription", "AXStringForRange",
                              "AXSelectedText"} |->
                         CASE a = "AXValue" -> StrVal(TxtC)
                           [] a = "AXStringForRange" -> StrVal(Rep("r", 7))
                           [] a = "AXSelectedText" -> StrVal(Rep("s", 7))
                           [] OTHER -> OtherVal]
          [] OTHER -> [a \in {"AXValue", "AXTitle"} |->
                         CASE a = "AXValue" -> StrVal(Rep("e", 5))
                           [] OTHER -> StrVal(TxtD)]]

ChildLists ==
    {s \in UNION {[1..k -> Nodes] : k \in 0..MaxChildren} :
        \A i, j \in 1..Len(s) : i # j => s[i] # s[j]}

Graphs ==
    {[n \in Nodes |-> [names_ok |-> TRUE, attrs |-> NodeAttrs[n],
                       children |-> ch[n]]] : ch \in [Nodes -> ChildLists]}

\* no failure, or the read of one attribute an element has fails
FaultChoices ==
    {{}} \cup {{<<n, a>>} : n \in Nodes, a \in {"AXValue"}}
         \cup {{<<1, "AXTitle">>}, {<<3, "AXTitle">>}}

(***************************************************************************)
(* Specifications                                                          *)
(***************************************************************************)
WalkIdle ==
    /\ tree = WinBlank
    /\ faults = {}
    /\ stack = <<>>
    /\ walk_result = None
    /\ calls = 0
    /\ deepest = 0

PollIdle ==
    /\ auto_save_enabled = TRUE
    /\ min_message_length = 1
    /\ trusted = TRUE
    /\ running = 0
    /\ launches = 0
    /\ claude_app = None
    /\ monitoring = FALSE
    /\ last_conversation_hash = None
    /\ pc = [t \in Threads |-> "none"]
    /\ main_pc = "start"
    /\ exit_status = None
    /\ last_cycle = NoCycle
    /\ latest_snapshot = None
    /\ last_saved = None

\* __init__, lines 31-45, with the configuration and the environment it
\* starts in
PollInit ==
    /\ trusted \in BOOLEAN
    /\ launches \in {0, 1}
    /\ running = launches
    /\ claude_app = None
    /\ monitoring = FALSE
    /\ last_conversation_hash = None
    /\ pc = [t \in Threads |-> "none"]
    /\ exit_status = None
    /\ last_cycle = NoCycle
    /\ latest_snapshot = None
    /\ last_saved = None

\* the program as main runs it
Init ==
    /\ WalkIdle
    /\ PollInit
    /\ auto_save_enabled \in BOOLEAN
    /\ min_message_length \in MinLengths
    /\ main_pc = "start"

Next ==
    \/ MainStart
    \/ SigInt
    \/ SysExit
    \/ AppLaunch
    \/ AppQuit
    \/ \E t \in Threads : Worker(t)

Spec == Init /\ [][Next]_vars

\* the program as main runs it, where the archiver has the configuration
\* __init__ gives it (lines 41-43), and every started worker thread is
\* scheduled again and again: a sleep returns and the statement after it
\* runs
FairInit ==
    /\ WalkIdle
    /\ PollInit
    /\ auto_save_enabled = TRUE
    /\ min_message_length = 1
    /\ main_pc = "start"

FairSpec ==
    FairInit /\ [][Next]_vars /\ \A t \in Threads : WF_vars(Worker(t))

\* the object used through its methods, in any order
ApiInit ==
    /\ WalkIdle
    /\ PollInit
    /\ auto_save_enabled = TRUE
    /\ min_message_length = 1
    /\ main_pc = "api"

ApiNext ==
    \/ StartMonitoring
    \/ StopMonitoring
    \/ ManualSave
    \/ \E t \in Threads : Worker(t)

ApiSpec == ApiInit /\ [][ApiNext]_vars

\* process_conversation_content called on its own, on any list of at most
\* MaxFragments of the sample fragments: short ones, the empty and the blank
\* string, and strings of trimmed length 20 and 21 with and without
\* whitespace around them.  The call and what it returned are recorded in
\* last_cycle.
Hello == <<"H", "e", "l", "l", "o">>

LongerMessage ==
    <<"T", "h", "i", "s", " ", "i", "s", " ", "a", " ", "l", "o", "n", "g",
      "e", "r", " ", "m", "e", "s", "s", "a", "g", "e", " ", "b", "o", "d",
      "y">>

SampleFragments ==
    {Hello, LongerMessage, Rep("a", 20), Rep("b", 21),
     <<" ">> \o Rep("c", 20) \o <<"\n">>, <<"\t">> \o Rep("d", 21),
     <<>>, <<" ", " ">>}

MaxFragments == 2

FragmentLists == UNION {[1..k -> SampleFragments] : k \in 0..MaxFragments}

AssembleInit ==
    /\ WalkIdle
    /\ PollInit
    /\ auto_save_enabled = TRUE
    /\ min_message_length \in MinLengths
    /\ main_pc = "api"

\* lines 204-225, one call
Assemble ==
    /\ main_pc = "api"
    /\ last_cycle = NoCycle
    /\ \E raw_content \in FragmentLists, now \in Timestamps :
          last_cycle' =
              [NoCycle EXCEPT
                  !.outcome = "assembled",
                  !.raw_content = Some(raw_content),
                  !.conversation =
                      process_conversation_content(Some(raw_content),
                                                   min_message_length, now)]
    /\ UNCHANGED <<auto_save_enabled, min_message_length, trusted, running,
                   launches, claude_app, monitoring, last_conversation_hash,
                   pc, main_pc, exit_status, latest_snapshot, last_saved>>
    /\ UNCHANGED walkvars

AssembleSpec == AssembleInit /\ [][Assemble]_vars

\* one call of the walker on the root of a graph
WalkInit ==
    /\ PollIdle
    /\ tree \in Graphs
    /\ faults \in FaultChoices
    /\ stack = <<Frame(Root, <<>>, 0)>>
    /\ walk_result = None
    /\ calls = 1
    /\ deepest = 0

WalkNext == Enter \/ ReadChildren \/ Recurse \/ Return

WalkSpec == WalkInit /\ [][WalkNext]_vars

\* the same call without read failures; the interpreter always takes the
\* next step of a running call
WalkFairInit ==
    /\ PollIdle
    /\ tree \in Graphs
    /\ faults = {}
    /\ stack = <<Frame(Root, <<>>, 0)>>
    /\ walk_result = None
    /\ calls = 1
    /\ deepest = 0

WalkFairSpec == WalkFairInit /\ [][WalkNext]_vars /\ WF_vars(WalkNext)

\* The stack machine and the function agree on what a call returns.
WalkerAgrees ==
    walk_result # None =>
        walk_result[1] = extract_text_from_element(tree, faults, Root, <<>>, 0)

(***************************************************************************)
(* Properties                                                              *)
(***************************************************************************)
\* the digest tells apart the texts the windows of the model can show
DigestCollisionFree ==
    \A c1, c2 \in Contents :
        (c1 # None /\ c2 # None /\ Join(c1[1]) # Join(c2[1]))
            => MD5(Join(c1[1])) # MD5(Join(c2[1]))

\* a worker thread finishes a poll cycle that went past discovery
PollStep == \E t \in Threads : pc[t] = "cycle" /\ pc'[t] = "sleep"

PolledOutcomes == {"empty", "changed", "unchanged"}

TextOf(conversation) == conversation[1].processed_text

\* C1: in a poll cycle that produces a snapshot with auto-save on,
\* save_conversation is called iff the snapshot's fingerprint differs from
\* last_conversation_hash as the cycle found it; if it differs the hash is the
\* new fingerprint after the cycle; if not, nothing is saved and the hash is
\* as before; a cycle that finds the hash unset always saves.
C1_ChangeGate ==
    (auto_save_enabled /\ last_cycle.conversation # None) =>
        LET differs == last_cycle.fingerprint # last_cycle.hash_before
        IN  /\ last_cycle.fingerprint =
                  generate_conversation_hash(last_cycle.conversation)
            /\ last_cycle.save_called <=> differs
            /\ differs =>
                  /\ last_conversation_hash = last_cycle.fingerprint
                  /\ last_saved =
                        Some([conversation |-> last_cycle.conversation[1],
                              ok |-> last_cycle.write_ok, by |-> "poll"])
            /\ ~differs =>
                  /\ last_conversation_hash = last_cycle.hash_before
                  /\ ~last_cycle.save_called
            /\ last_cycle.hash_before = None => last_cycle.save_called

C1_Witness ==
    /\ auto_save_enabled
    /\ last_cycle.outcome = "changed"
    /\ last_cycle.hash_before # None
    /\ last_cycle.save_called
    /\ last_conversation_hash = last_cycle.fingerprint

\* C2, as claimed: last_conversation_hash is unset, or it is the fingerprint
\* of the most recent snapshot handed to save_conversation, whatever the
\* auto-save flag is.
C2_HashOfLastStored ==
    \/ last_conversation_hash = None
    \/ /\ last_saved # None
       /\ last_conversation_hash =
             generate_conversation_hash(Some(last_saved[1].conversation))

\* C2, amended: last_conversation_hash is unset exactly while no poll cycle
\* has produced a snapshot, and otherwise it is the fingerprint of the most
\* recent snapshot a poll cycle detected as changed: it changes only in a
\* cycle that detects a change, to that cycle's fingerprint, and that cycle
\* hands its snapshot to save_conversation iff auto-save is on.  So with
\* auto-save on it is the fingerprint of the last snapshot handed to
\* save_conversation, and with auto-save off nothing is ever handed to it.
C2_HashOfLastDetected ==
    /\ [](last_conversation_hash = None <=> latest_snapshot = None)
    /\ [](last_cycle.outcome \in {"changed", "unchanged"} =>
            last_conversation_hash = last_cycle.fingerprint)
    /\ [](auto_save_enabled => C2_HashOfLastStored)
    /\ [](~auto_save_enabled => last_saved = None)
    /\ [][last_conversation_hash' # last_conversation_hash =>
            /\ PollStep
            /\ last_cycle'.outcome = "changed"
            /\ last_cycle'.fingerprint =
                  generate_conversation_hash(last_cycle'.conversation)
            /\ last_conversation_hash' = last_cycle'.fingerprint
            /\ last_cycle'.save_called = auto_save_enabled]_vars

C2_Witness ==
    /\ ~auto_save_enabled
    /\ last_cycle.outcome = "unchanged"
    /\ last_conversation_hash # None
    /\ last_saved = None

\* the write of the last saved snapshot failed and the content is still the
\* last seen
WriteFailedPending ==
    /\ last_saved # None
    /\ ~last_saved[1].ok
    /\ last_conversation_hash =
          generate_conversation_hash(Some(last_saved[1].conversation))

\* C3: when the write fails in a cycle that detected a change, the cycle
\* ends as a normal changed cycle (the failure does not reach the loop's
\* handler) with last_conversation_hash set to the new fingerprint; and while
\* the content stays the one whose write failed, a cycle that yields the same
\* full text is unchanged, calls save_conversation not at all and leaves the
\* hash alone.
C3_WriteFailure ==
    /\ []((last_cycle.save_called /\ ~last_cycle.write_ok) =>
            /\ last_cycle.outcome = "changed"
            /\ last_conversation_hash = last_cycle.fingerprint
            /\ last_saved # None
            /\ ~last_saved[1].ok
            /\ last_saved[1].conversation = last_cycle.conversation[1])
    /\ [][(/\ WriteFailedPending
           /\ PollStep
           /\ last_cycle'.conversation # None
           /\ TextOf(last_cycle'.conversation)
                 = last_saved[1].conversation.processed_text)
          => /\ last_cycle'.outcome = "unchanged"
             /\ ~last_cycle'.save_called
             /\ last_saved' = last_saved
             /\ last_conversation_hash' = last_conversation_hash]_vars

C3_Witness ==
    /\ WriteFailedPending
    /\ last_cycle.outcome = "unchanged"
    /\ last_cycle.prev_outcome = "changed"
    /\ TextOf(last_cycle.conversation)
          = last_saved[1].conversation.processed_text

\* every snapshot the assembler can produce in the model
Snapshots ==
    {Assembled[c, m, now] : c \in Contents, m \in MinLengths,
                            now \in Timestamps} \ {None}

\* snapshots with the same full text have the same fingerprint
SameTextSameFingerprint ==
    \A s1, s2 \in Snapshots :
        s1[1].processed_text = s2[1].processed_text =>
            generate_conversation_hash(s1) = generate_conversation_hash(s2)

\* C4: snapshots with the same processed_text have the same fingerprint,
\* whatever their timestamps and raw fragments; and a cycle whose snapshot
\* has the full text of the snapshot of the previous snapshot-producing
\* cycle is unchanged and calls save_conversation not at all.
C4_TextOnlyFingerprint ==
    /\ []SameTextSameFingerprint
    /\ [][(/\ PollStep
           /\ latest_snapshot # None
           /\ last_cycle'.conversation # None
           /\ TextOf(last_cycle'.conversation) = TextOf(latest_snapshot))
          => /\ last_cycle'.outcome = "unchanged"
             /\ ~last_cycle'.save_called
             /\ last_saved' = last_saved
             /\ last_conversation_hash' = last_conversation_hash]_vars

C4_Witness ==
    /\ last_cycle.outcome = "unchanged"
    /\ last_saved # None
    /\ TextOf(last_cycle.conversation)
          = last_saved[1].conversation.processed_text
    /\ last_cycle.conversation[1].raw_content
          # last_saved[1].conversation.raw_content
    /\ last_cycle.conversation[1].timestamp
          # last_saved[1].conversation.timestamp

\* no usable content: no fragments at all, or a full text shorter than the
\* threshold once trimmed
Unusable(content, minlen) ==
    \/ content = None
    \/ content[1] = <<>>
    \/ Len(Strip(Join(content[1]))) < minlen

\* unusable content gives no snapshot
UnusableGivesNoSnapshot ==
    \A c \in Contents, m \in MinLengths, now \in Timestamps :
        Unusable(c, m) => Assembled[c, m, now] = None

\* C5: on unusable content process_conversation_content returns no
\* snapshot; such a cycle computes no fingerprint, calls save_conversation
\* not at all, leaves last_conversation_hash alone and goes on to its sleep;
\* and a cycle after an empty one that yields the full text of the snapshot
\* before it is unchanged.
C5_EmptyCycle ==
    /\ []UnusableGivesNoSnapshot
    /\ []((last_cycle.outcome \in PolledOutcomes
           /\ Unusable(last_cycle.raw_content, min_message_length)) =>
            /\ last_cycle.outcome = "empty"
            /\ last_cycle.conversation = None
            /\ last_cycle.fingerprint = None
            /\ ~last_cycle.save_called
            /\ last_conversation_hash = last_cycle.hash_before)
    /\ [][(PollStep /\ last_cycle'.outcome = "empty") =>
            /\ last_conversation_hash' = last_conversation_hash
            /\ last_saved' = last_saved
            /\ latest_snapshot' = latest_snapshot]_vars
    /\ [][(/\ PollStep
           /\ last_cycle.outcome = "empty"
           /\ latest_snapshot # None
           /\ last_cycle'.conversation # None
           /\ TextOf(last_cycle'.conversation) = TextOf(latest_snapshot))
          => last_cycle'.outcome = "unchanged"]_vars

C5_Witness ==
    /\ last_cycle.outcome = "unchanged"
    /\ last_cycle.prev_outcome = "empty"
    /\ last_conversation_hash = last_cycle.fingerprint

\* C9, as claimed: a poll cycle that reaches the main window walks it
\* exactly once.
C9_OneWalkPerCycle ==
    last_cycle.raw_content # None => last_cycle.walks = 1

\* C10, as claimed: at most one execution context is inside a poll cycle.
C10_OneWorkerInCycle ==
    Cardinality({t \in Threads : pc[t] = "cycle"}) <= 1

\* p comes before q in depth-first pre-order: p is an ancestor of q, or at
\* the first place they part p goes to an earlier sibling
PathBefore(p, q) ==
    \E i \in 1..Len(q) :
        /\ i <= Len(p) + 1
        /\ \A j \in 1..(i - 1) : p[j] = q[j]
        /\ \/ i = Len(p) + 1
           \/ i <= Len(p) /\ p[i] < q[i]

\* fragment x comes before fragment y in strict pre-order (within one node,
\* in the order of text_attributes)
FragmentBefore(x, y) ==
    \/ PathBefore(x.path, y.path)
    \/ x.path = y.path /\ x.attr < y.attr

\* the element a path of child numbers leads to from the root
RECURSIVE ElementAt(_, _)
ElementAt(el, path) ==
    IF path = <<>> THEN el
    ELSE ElementAt(tree[el].children[Head(path)], Tail(path))

\* C6: on every graph, cyclic ones included, the call on the root returns,
\* and no call is ever made with a depth beyond the depth bound.
C6_BoundedAndTerminates ==
    /\ [](\A k \in 1..Len(stack) : stack[k].depth <= MaxTextDepth)
    /\ [](deepest <= MaxTextDepth)
    /\ <>(walk_result # None /\ stack = <<>>)

C6_Witness ==
    /\ walk_result # None
    /\ 1 \in {tree[1].children[k] : k \in 1..Len(tree[1].children)}
    /\ deepest = MaxRecurseDepth
    /\ calls > MaxTextDepth

\* C7: the fragments are returned in strict depth-first pre-order: each
\* comes from the element its path leads to, and of any two the earlier one
\* is an own fragment of an ancestor, or lies in the subtree of an earlier
\* sibling, or comes from an earlier attribute of the same element.
C7_PreOrder ==
    walk_result # None =>
        LET out == walk_result[1]
        IN  /\ \A i \in 1..Len(out) :
                  /\ out[i].el = ElementAt(Root, out[i].path)
                  /\ out[i].text =
                        Strip(tree[out[i].el].attrs[text_attributes[out[i].attr]].s)
            /\ \A i, j \in 1..Len(out) :
                  i < j => FragmentBefore(out[i], out[j])

C7_Witness ==
    /\ walk_result # None
    /\ tree[1].children = <<2, 3>>
    /\ tree[2].children = <<3>>
    /\ faults = {}
    /\ Len(walk_result[1]) >= 5

\* C8: with a read failure on one attribute of one element, the walk
\* returns what the walk without the failure returns, less the fragments of
\* that attribute of that element.
NotFaulted(x) == <<x.el, text_attributes[x.attr]>> \notin faults

C8_FaultIsLocal ==
    walk_result # None =>
        walk_result[1] =
            SelectSeq(extract_text_from_element(tree, {}, Root, <<>>, 0),
                      NotFaulted)

C8_Witness ==
    /\ walk_result # None
    /\ faults = {<<1, "AXValue">>}
    /\ tree[1].children = <<2, 1>>
    /\ \E i \in 1..Len(walk_result[1]) :
          walk_result[1][i].el = 1 /\ walk_result[1][i].attr = 2
    /\ \A i \in 1..Len(walk_result[1]) :
          ~(walk_result[1][i].el = 1 /\ walk_result[1][i].attr = 1)

\* the interrupt has been delivered to a process that was monitoring
Interrupted == main_pc = "stopping" \/ (main_pc = "exited" /\ trusted)

\* C11: the handler of the interrupt clears the monitoring flag and the
\* flag stays cleared; from then on no worker passes from the loop condition
\* into a poll cycle; the process ends with exit status 0; and neither the
\* handler nor the exit waits for the worker, whatever it is doing (its
\* sleep included).
C11_InterruptStops ==
    /\ [][(main_pc = "waiting" /\ main_pc' # "waiting") =>
            (main_pc' = "stopping" /\ ~monitoring')]_vars
    /\ [](Interrupted => ~monitoring)
    /\ [][Interrupted =>
            \A t \in Threads : pc'[t] = "cycle" => pc[t] = "cycle"]_vars
    /\ [][(main_pc = "stopping" /\ main_pc' # "stopping") =>
            (main_pc' = "exited" /\ exit_status' = Some(0) /\ pc' = pc)]_vars
    /\ [](main_pc = "exited" <=> exit_status # None)
    /\ [](main_pc = "waiting" => ENABLED SigInt)
    /\ [](main_pc = "stopping" => ENABLED SysExit)

C11_Witness ==
    /\ main_pc = "exited"
    /\ trusted
    /\ exit_status = Some(0)
    /\ ~monitoring
    /\ pc[1] = "sleep"
    /\ last_cycle.outcome = "changed"

\* C12, as claimed: a cycle that runs while the application is not running
\* is a waiting cycle (no extraction, no fingerprint update, then the
\* backoff and a new discovery), and a cycle that goes past discovery while
\* the application is running works on the running application, also after
\* the application was found once and has quit.
C12_RetriesDiscovery ==
    last_cycle.outcome \in {"waiting"} \cup PolledOutcomes =>
        /\ last_cycle.running = 0 =>
              /\ last_cycle.outcome = "waiting"
              /\ last_cycle.raw_content = None
              /\ last_conversation_hash = last_cycle.hash_before
        /\ last_cycle.running # 0 =>
              /\ last_cycle.outcome # "waiting"
              /\ claude_app = Some(last_cycle.running)

\* C13: a cycle ends in a sleep and never ends the loop: a cycle that raised
\* and a cycle that went past discovery both end in the sleep of
\* check_interval (only a cycle that found no application ends in the
\* backoff); a sleep is followed by the loop condition and nothing else; the
\* loop ends only at the loop condition with the flag cleared; and a worker
\* in its sleep begins another cycle unless the flag is cleared meanwhile.
C13_LoopGoesOn ==
    /\ [][\A t \in Threads :
            (pc[t] = "cycle" /\ pc'[t] # "cycle") =>
                /\ last_cycle'.outcome
                      \in {"waiting", "error", "empty", "changed", "unchanged"}
                /\ pc'[t] = (IF last_cycle'.outcome = "waiting"
                             THEN "backoff" ELSE "sleep")
                /\ last_cycle'.outcome # "waiting" => claude_app' # None
                      \/ last_cycle'.outcome = "error"]_vars
    /\ [][\A t \in Threads :
            (pc[t] \in {"sleep", "backoff"} /\ pc'[t] # pc[t]) =>
                pc'[t] = "loop"]_vars
    /\ [][\A t \in Threads :
            (pc[t] # "done" /\ pc'[t] = "done") =>
                (pc[t] = "loop" /\ ~monitoring)]_vars
    /\ \A t \in Threads :
          (pc[t] \in {"sleep", "backoff"}) ~> (pc[t] = "cycle" \/ ~monitoring)

C13_Witness ==
    /\ monitoring
    /\ pc[1] = "cycle"
    /\ last_cycle.outcome = "error"
    /\ last_cycle.prev_outcome = "changed"

\* C14: when the permission check fails, start_monitoring leaves the
\* monitoring flag unset and starts no worker, and main returns; no
\* discovery, extraction, fingerprint update or call of save_conversation
\* happens in that run.
C14_NoPermissionNoLoop ==
    /\ [](~trusted =>
            /\ ~monitoring
            /\ \A t \in Threads : pc[t] = "none"
            /\ claude_app = None
            /\ last_cycle = NoCycle
            /\ last_conversation_hash = None
            /\ latest_snapshot = None
            /\ last_saved = None
            /\ main_pc \in {"start", "exited"})
    /\ [][(~trusted /\ main_pc = "start" /\ main_pc' # "start") =>
            (main_pc' = "exited" /\ monitoring' = monitoring /\ pc' = pc)]_vars

C14_Witness ==
    /\ ~trusted
    /\ main_pc = "exited"
    /\ running # 0
    /\ ~monitoring
    /\ pc[1] = "none"

\* the paths of child numbers of length at most n
PathsUpTo(n) == UNION {[1..k -> 1..MaxChildren] : k \in 0..n}

\* path p follows child lists from element el
RECURSIVE ValidFrom(_, _)
ValidFrom(el, p) ==
    \/ p = <<>>
    \/ /\ Head(p) <= Len(tree[el].children)
       /\ ValidFrom(tree[el].children[Head(p)], Tail(p))

\* the places the walk visits: the root and what child lists lead to within
\* the recursion bound
VisitedPaths == {p \in PathsUpTo(MaxRecurseDepth) : ValidFrom(Root, p)}

\* the positions of the output that hold the fragment of attribute number k
\* of the element at path p
EmittedAt(out, p, k) ==
    {i \in 1..Len(out) : out[i].path = p /\ out[i].attr = k}

\* C15: every fragment of the output is non-empty, has no leading or
\* trailing whitespace and is longer than 5; and for each visited node and
\* each kind of the list, the output holds one fragment of that kind of that
\* node, the trimmed value, if the node has the attribute, the read does not
\* fail and the value is a string whose trimmed length exceeds 5, and holds
\* none otherwise.
C15_FragmentRule ==
    walk_result # None =>
        LET out == walk_result[1]
        IN  /\ \A i \in 1..Len(out) :
                  /\ out[i].text # <<>>
                  /\ Strip(out[i].text) = out[i].text
                  /\ Len(out[i].text) > 5
                  /\ out[i].path \in VisitedPaths
                  /\ out[i].attr \in 1..Len(text_attributes)
            /\ \A p \in VisitedPaths, k \in 1..Len(text_attributes) :
                  LET node == tree[ElementAt(Root, p)]
                      kind == text_attributes[k]
                      emitted == EmittedAt(out, p, k)
                  IN  IF /\ kind \in DOMAIN node.attrs
                         /\ <<ElementAt(Root, p), kind>> \notin faults
                         /\ node.attrs[kind].str
                         /\ Len(Strip(node.attrs[kind].s)) > 5
                      THEN /\ Cardinality(emitted) = 1
                           /\ \A i \in emitted :
                                 out[i].text = Strip(node.attrs[kind].s)
                      ELSE emitted = {}

C15_Witness ==
    /\ walk_result # None
    /\ faults = {}
    /\ tree[1].children = <<3, 2>>
    /\ tree[2].children = <<>>
    /\ tree[3].children = <<>>
    /\ Len(walk_result[1]) = 6
    /\ walk_result[1][2].text = TxtB

\* the place of a kind in the order the claim gives: value, title,
\* description, help text, role description, placeholder, selected text,
\* then the string-for-range variants
ClaimedRank(kind) ==
    CASE kind = "AXValue" -> 1
      [] kind = "AXTitle" -> 2
      [] kind = "AXDescription" -> 3
      [] kind = "AXHelp" -> 4
      [] kind = "AXRoleDescription" -> 5
      [] kind = "AXPlaceholderValue" -> 6
      [] kind = "AXSelectedText" -> 7
      [] OTHER -> 8

\* C16, as claimed: of two fragments of one node, the one whose kind comes
\* earlier in the order value, title, description, help text, role
\* description, placeholder, selected text, string-for-range variants comes
\* first in the output; selected text comes before string-for-range.
C16_AttributePriority ==
    walk_result # None =>
        LET out == walk_result[1]
        IN  \A i, j \in 1..Len(out) :
                (/\ out[i].path = out[j].path
                 /\ ClaimedRank(text_attributes[out[i].attr])
                       < ClaimedRank(text_attributes[out[j].attr]))
                => i < j

\* the place of a kind in the order of the list at lines 162-166
ListRank(kind) ==
    CASE kind = "AXValue" -> 1
      [] kind = "AXTitle" -> 2
      [] kind = "AXDescription" -> 3
      [] kind = "AXHelp" -> 4
      [] kind = "AXRoleDescription" -> 5
      [] kind = "AXPlaceholderValue" -> 6
      [] kind = "AXStringForRange" -> 7
      [] kind = "AXAttributedStringForRange" -> 8
      [] kind = "AXSelectedText" -> 9
      [] kind = "AXVisibleCharacterRange" -> 10

\* C16, amended: of two fragments of one node, the one whose kind comes
\* earlier in the order value, title, description, help text, role
\* description, placeholder, string-for-range, attributed-string-for-range,
\* selected text, visible character range comes first in the output; the
\* string-for-range variants come before selected text.
C16_ListOrder ==
    walk_result # None =>
        LET out == walk_result[1]
        IN  \A i, j \in 1..Len(out) :
                (/\ out[i].path = out[j].path
                 /\ ListRank(text_attributes[out[i].attr])
                       < ListRank(text_attributes[out[j].attr]))
                => i < j

C16_Witness ==
    /\ walk_result # None
    /\ \E i \in 1..(Len(walk_result[1]) - 1) :
          LET x == walk_result[1][i]
              y == walk_result[1][i + 1]
          IN  /\ x.path = y.path
              /\ text_attributes[x.attr] = "AXStringForRange"
              /\ text_attributes[y.attr] = "AXSelectedText"
              /\ x.text = Rep("r", 7)
              /\ y.text = Rep("s", 7)

RECURSIVE SumLen(_)
SumLen(frags) ==
    IF frags = <<>> THEN 0 ELSE Len(Head(frags)) + SumLen(Tail(frags))

\* how many characters come before fragment number i in the joined text
Offset(frags, i) == SumLen(SubSeq(frags, 1, i - 1)) + (i - 1)

\* text is the fragments in their order with one newline between neighbours
IsNewlineJoin(text, frags) ==
    /\ Len(text) = SumLen(frags) + (IF frags = <<>> THEN 0 ELSE Len(frags) - 1)
    /\ \A i \in 1..Len(frags) :
          SubSeq(text, Offset(frags, i) + 1, Offset(frags, i) + Len(frags[i]))
              = frags[i]
    /\ \A i \in 1..(Len(frags) - 1) :
          text[Offset(frags, i) + Len(frags[i]) + 1] = "\n"

\* snapshot is a snapshot of the fragment sequence input
SnapshotOf(snapshot, input) ==
    /\ snapshot.raw_content = input
    /\ IsNewlineJoin(snapshot.processed_text, snapshot.raw_content)

\* every snapshot the assembler returns is a snapshot of its input
AssembledAreSnapshots ==
    \A c \in Contents, m \in MinLengths, now \in Timestamps :
        Assembled[c, m, now] # None => SnapshotOf(Assembled[c, m, now][1], c[1])

\* C17: every snapshot process_conversation_content returns has the input
\* fragments, unmodified, as raw_content and their newline-join, in the same
\* order, as processed_text; the snapshot of a poll cycle still does after
\* the cycle hashed it, and what save_conversation is given, by the poll
\* loop or by manual_save, is such a snapshot, the very one the cycle made.
C17_SnapshotShape ==
    /\ []AssembledAreSnapshots
    /\ [](last_cycle.conversation # None =>
            SnapshotOf(last_cycle.conversation[1], last_cycle.raw_content[1]))
    /\ [](last_saved # None =>
            /\ Some(last_saved[1].conversation) \in Snapshots
            /\ IsNewlineJoin(last_saved[1].conversation.processed_text,
                             last_saved[1].conversation.raw_content))
    /\ [][(PollStep /\ last_cycle'.save_called) =>
            last_saved'[1].conversation = last_cycle'.conversation[1]]_vars

C17_Witness ==
    /\ last_saved # None
    /\ last_saved[1].by = "poll"
    /\ last_cycle.save_called
    /\ last_cycle.conversation = Some(last_saved[1].conversation)
    /\ Len(last_saved[1].conversation.raw_content) = 2
    /\ last_saved[1].conversation.processed_text = TxtA \o <<"\n">> \o TxtB

\* C18: a call of process_conversation_content that returns a snapshot
\* gives it as message_count the number of fragments whose trimmed length
\* is greater than 20, a fragment of trimmed length exactly 20 not counted;
\* the fragments "Hello", "This is a longer message body" give the full text
\* "Hello\nThis is a longer message body" and the count 1.
C18_MessageCount ==
    (last_cycle.outcome = "assembled" /\ last_cycle.conversation # None) =>
        LET frags == last_cycle.raw_content[1]
            snapshot == last_cycle.conversation[1]
        IN  /\ snapshot.message_count =
                  Cardinality({i \in 1..Len(frags) : Len(Strip(frags[i])) > 20})
            /\ (\A i \in 1..Len(frags) : Len(Strip(frags[i])) = 20)
                  => snapshot.message_count = 0
            /\ frags = <<Hello, LongerMessage>> =>
                  /\ snapshot.processed_text
                        = Hello \o <<"\n">> \o LongerMessage
                  /\ snapshot.message_count = 1

C18_Witness ==
    /\ last_cycle.outcome = "assembled"
    /\ last_cycle.raw_content = Some(<<Hello, LongerMessage>>)
    /\ last_cycle.conversation # None
    /\ last_cycle.conversation[1].message_count = 1
    /\ min_message_length = LongMinLength

\* the element has an attribute that gives a fragment
GivesFragment(el) ==
    \E k \in 1..Len(text_attributes) :
        LET kind == text_attributes[k]
        IN  /\ kind \in DOMAIN tree[el].attrs
            /\ <<el, kind>> \notin faults
            /\ tree[el].attrs[kind].str
            /\ Len(Strip(tree[el].attrs[kind].s)) > 5

\* the places child lists lead to from the root within n levels
ReachablePaths(n) == {p \in PathsUpTo(n) : ValidFrom(Root, p)}

\* C19, as claimed: the nodes whose text is extracted are exactly those
\* child lists lead to at depths 0 through 4: no fragment comes from a
\* deeper node, and every such node that has text gives its fragments.
C19_TextDepthFour ==
    walk_result # None =>
        LET out == walk_result[1]
        IN  /\ \A i \in 1..Len(out) : Len(out[i].path) <= 4
            /\ \A p \in ReachablePaths(4) :
                  GivesFragment(ElementAt(Root, p)) =>
                      \E i \in 1..Len(out) : out[i].path = p

\* C19, amended: the nodes whose text is extracted are exactly those child
\* lists lead to at depths 0 through 3, the recursion bound: each of them is
\* visited once, every one of them that has text gives its fragments, and
\* the nodes at depth 4 and deeper are never visited and give none (so the
\* text-extraction limit of 4 is never the reason a node is left out).
C19_RecursionBoundDecides ==
    walk_result # None =>
        LET out == walk_result[1]
        IN  /\ \A i \in 1..Len(out) : Len(out[i].path) <= 3
            /\ \A p \in ReachablePaths(4) :
                  (\E i \in 1..Len(out) : out[i].path = p)
                      <=> (Len(p) <= 3 /\ GivesFragment(ElementAt(Root, p)))
            /\ deepest <= 3
            /\ calls = Cardinality(ReachablePaths(3))

C19_Witness ==
    /\ walk_result # None
    /\ faults = {}
    /\ tree[1].children = <<1>>
    /\ ReachablePaths(4) # ReachablePaths(3)
    /\ deepest = 3
    /\ calls = 4
    /\ Len(walk_result[1]) = 8

\* the fingerprint of the snapshot last given to save_conversation
SavedFingerprint ==
    generate_conversation_hash(Some(last_saved[1].conversation))

\* C20: a manual_save that saves leaves last_conversation_hash (and the
\* rest of the poll loop's state) as it was; while the application found is
\* running, manual_save can save content whose fingerprint is the last seen
\* one; and after a manual save of content whose fingerprint is not the last
\* seen one, a poll cycle that yields the same full text is a changed cycle
\* and saves it again.
C20_ManualSaveIgnoresHash ==
    /\ [][(last_saved' # last_saved /\ last_saved'[1].by = "manual") =>
            /\ last_conversation_hash' = last_conversation_hash
            /\ last_cycle' = last_cycle
            /\ claude_app' = claude_app
            /\ monitoring' = monitoring
            /\ pc' = pc]_vars
    /\ []((/\ claude_app # None
           /\ claude_app[1] = running
           /\ last_conversation_hash # None) =>
            ENABLED (/\ ManualSave
                     /\ last_saved' # None
                     /\ last_saved'[1].by = "manual"
                     /\ generate_conversation_hash(
                            Some(last_saved'[1].conversation))
                          = last_conversation_hash))
    /\ [][(/\ PollStep
           /\ last_saved # None
           /\ last_saved[1].by = "manual"
           /\ SavedFingerprint # last_conversation_hash
           /\ last_cycle'.conversation # None
           /\ TextOf(last_cycle'.conversation)
                 = last_saved[1].conversation.processed_text)
          => /\ last_cycle'.outcome = "changed"
             /\ last_cycle'.save_called
             /\ last_saved'[1].by = "poll"
             /\ last_saved'[1].conversation = last_cycle'.conversation[1]]_vars

C20_Witness ==
    /\ last_saved # None
    /\ last_saved[1].by = "manual"
    /\ last_conversation_hash # None
    /\ SavedFingerprint # last_conversation_hash
    /\ last_cycle.outcome = "changed"
    /\ claude_app = Some(running)
    /\ pc[1] = "cycle"

====
